---- MODULE Spec2Model ----
(***************************************************************************)
(* Model of backend/app/services/mavlink_router.py: the MAVLinkRouter and  *)
(* its TelemetryDestination objects running on one asyncio event loop.     *)
(*                                                                         *)
(* Scheduling.  asyncio is cooperative: a coroutine runs without           *)
(* interruption from one suspension (await asyncio.sleep, await <pending   *)
(* task>) to the next.  `ready` is the loop's FIFO queue of callbacks       *)
(* (arrived calls, created tasks, woken and cancelled coroutines) and      *)
(* `cur` the coroutine that is running.  The code of a coroutine between   *)
(* two suspensions is a chain of steps, each an operator from a state to   *)
(* the set of states it can lead to (one per outcome of the link, the      *)
(* sockets and the clock); an action runs a coroutine from where it was    *)
(* resumed to its next suspension, so the reachable states are the         *)
(* scheduling points, the only states another coroutine can observe, and   *)
(* the states in which a call hands over its result.  A sleep ends at any  *)
(* time, but its coroutine runs after every callback that was queued when  *)
(* the sleep began: each sleeper records those in `after`.                 *)
(*                                                                         *)
(* Coroutines: the API calls (configure, start, stop, add_destination,     *)
(* remove_destination), the forwarding tasks (_route_messages) and the     *)
(* reverse-listen tasks (_listen_from_destination).  get_status is not a   *)
(* coroutine: it runs between two runs of the event loop.                  *)
(***************************************************************************)
EXTENDS Integers, Sequences, FiniteSets, TLC

\* ------------------------------------------------------------------ bounds
MaxCalls == 2
\* API calls in flight at once
MaxRoutes == 2
\* forwarding-task slots
MaxListens == 3
\* listen-task slots
MaxDests == 2
\* TelemetryDestination objects alive at once
MaxNames == 2
\* distinct destination names the callers use
MaxRequests == 3
\* API calls admitted in one behaviour
MaxRetries == 2
\* value given to max_retries (the code's default is 10)
IdleCap == 1
\* idle_count saturates here; the code only tests idle_count == 0 and < 100
BatchCap == 2
\* value given to batch_size (the code's value is 10)
MaxCrossings == 2
\* API calls made to the router in flight with two destinations
MaxMessages == 2
\* messages the link delivers where the traffic is followed
MaxBuffers == 1
\* buffers each ground station sends where the traffic is followed
MaxErrors == 2
\* stats["errors"] is followed up to here
MaxServings == 1
\* API calls made to the router in service
MaxFaults == 1
\* stats["errors"] is followed up to here in service
MaxUnclosed == 1
\* sockets left unclosed that are followed for each destination
MaxHalts == 2
\* API calls made to the router that is being stopped

\* --------------------------------------------------------------- constants
None == 0
Link == 1
\* the handle mavutil.mavlink_connection returns
max_retries == MaxRetries
batch_size == BatchCap
auto_retry == TRUE

Calls == 1..MaxCalls
Routes == (MaxCalls + 1)..(MaxCalls + MaxRoutes)
Listens == (MaxCalls + MaxRoutes + 1)..(MaxCalls + MaxRoutes + MaxListens)
Tasks == Routes \cup Listens
Procs == Calls \cup Tasks
DestIds == 1..MaxDests
Names == 1..MaxNames
Protocols == {"udp", "tcp", "other"}
Ports == {"", "/dev/ttyACM0"}
DefaultBaud == 57600
\* self.baud_rate of a new router
Bauds == {DefaultBaud, 115200}
Watcher == MaxCalls + MaxRoutes + MaxListens + 1
\* a reader of the status, which is no coroutine of the router

VARIABLES
    serial_port,          \* self.serial_port: None or a device path
    baud_rate,            \* self.baud_rate
    connection,           \* self.connection: None or the open link
    running,              \* self.running
    task,                 \* self.task: None or a forwarding task
    heartbeat_received,   \* self.heartbeat_received
    retry_count,          \* self.retry_count
    last_heartbeat,       \* self.stats["last_heartbeat"]: "none", or its age
                          \* against heartbeat_timeout: "fresh" or "stale"
    destinations,         \* self.destinations: list of destination objects
    dest,                 \* the TelemetryDestination objects
    proc,                 \* the coroutines: position and local variables
    ready,                \* the event loop's queue of runnable coroutines
    waitq,                \* coroutines awaiting a task, in order of awaiting
    cur,                  \* the coroutine that is running, or None
    requests,             \* API calls admitted so far
    turns,                \* in flight: the number of runs the forwarding
                          \* task has made, modulo 2
    stats,                \* self.stats: the counters
    read,                 \* the link: the messages recv_match has given
    written,              \* the link: the buffers written to it
    sent,                 \* the sockets: the buffers sent through each
    received,             \* the sockets: the buffers received from each
    telemetry,            \* self.telemetry: the snapshot
    unclosed,             \* the sockets that connect() has dropped unclosed
                          \* and no finalizer has closed, for each destination
    status                \* the object get_status has returned to its reader

router == <<serial_port, baud_rate, connection, running, task,
            heartbeat_received, retry_count, last_heartbeat, destinations>>
sched == <<proc, ready, waitq, cur, requests, turns, status>>
traffic == <<stats, read, written, sent, received, telemetry, unclosed>>
vars == <<serial_port, baud_rate, connection, running, task,
          heartbeat_received, retry_count, last_heartbeat, destinations, dest,
          proc, ready, waitq, cur, requests, turns, stats, read, written, sent,
          received, telemetry, unclosed, status>>

\* ----------------------------------------------------- TelemetryDestination
NoDest == [name |-> None, protocol |-> "", socket |-> FALSE,
           connected |-> FALSE, listen_task |-> None]

\* TelemetryDestination.__init__
NewDest(name, protocol) == [NoDest EXCEPT !.name = name, !.protocol = protocol]

\* The connect that reports success whatever the protocol and the peer
ConnectOkAlways(d, ok) == TRUE

\* TelemetryDestination.connect: ok is whether the transport call succeeds
\* (a UDP bind to port 0 does; a TCP connect depends on the peer).
ConnectOk(d, ok) == d.protocol = "udp" \/ (d.protocol = "tcp" /\ ok)

Connect(d, ok) ==
    IF d.protocol = "udp" THEN [d EXCEPT !.socket = TRUE, !.connected = TRUE]
    ELSE IF d.protocol = "tcp"
         THEN [d EXCEPT !.socket = TRUE, !.connected = ok]
         ELSE d

\* The send whose failure leaves the destination connected
SendKeepsConnected(d, ok) == d

\* The recv that takes "no data available" for an error
RecvDropsOnWouldBlock(d, outcome) ==
    IF ~d.connected \/ ~d.socket THEN d
    ELSE IF outcome \in {"error", "none"} THEN [d EXCEPT !.connected = FALSE]
    ELSE d

\* TelemetryDestination.send: ok is whether the transport write succeeds
SendOk(d, ok) == d.connected /\ d.socket /\ ok

Send(d, ok) ==
    IF ~d.connected \/ ~d.socket THEN d
    ELSE IF ok THEN d ELSE [d EXCEPT !.connected = FALSE]

\* TelemetryDestination.recv: outcome is "data", "none" (BlockingIOError)
\* or "error" (any other transport error)
Recv(d, outcome) ==
    IF ~d.connected \/ ~d.socket THEN d
    ELSE IF outcome = "error" THEN [d EXCEPT !.connected = FALSE] ELSE d

RecvData(d, outcome) == d.connected /\ d.socket /\ outcome = "data"

\* TelemetryDestination.close
Close(d) == [d EXCEPT !.socket = FALSE, !.connected = FALSE]

\* ------------------------------------------------------------- coroutines
NoProc == [st |-> "idle", pc |-> "", cancel |-> FALSE, on |-> None, after |-> {},
           op |-> "", name |-> None, protocol |-> "", port |-> "",
           baud |-> None,
           dest |-> None, idx |-> 0, via |-> "", idle_count |-> 0,
           messages_processed |-> 0, msg_type |-> "", assigned |-> 0,
           result |-> ""]

Range(s) == {s[i] : i \in 1..Len(s)}

IndexOf(s, x) == CHOOSE i \in 1..Len(s) : s[i] = x /\ \A j \in 1..(i - 1) : s[j] # x

\* list.remove(x): drops the first occurrence
RemoveFirst(s, x) ==
    LET i == IndexOf(s, x) IN SubSeq(s, 1, i - 1) \o SubSeq(s, i + 1, Len(s))

Min(S) == CHOOSE x \in S : \A y \in S : x <= y

\* The state a step works on
State == [serial_port |-> serial_port, baud_rate |-> baud_rate,
          connection |-> connection,
          running |-> running, task |-> task,
          heartbeat_received |-> heartbeat_received,
          retry_count |-> retry_count, last_heartbeat |-> last_heartbeat,
          destinations |-> destinations, dest |-> dest, proc |-> proc,
          ready |-> ready, waitq |-> waitq, cur |-> cur,
          stats |-> stats, read |-> read, written |-> written,
          sent |-> sent, received |-> received, telemetry |-> telemetry,
          unclosed |-> unclosed, followed |-> FALSE, detailed |-> FALSE,
          typed |-> FALSE]

\* The state of a run in which the counters and the traffic are followed
Followed == [State EXCEPT !.followed = TRUE]

\* The state of a run in which the snapshot and the sockets left unclosed
\* are followed too
Detailed == [Followed EXCEPT !.detailed = TRUE]

\* The state of a run in which the link gives messages of every type, some
\* of them with fields that cannot be extracted
Typed == [Detailed EXCEPT !.typed = TRUE]

\* Destination objects something still refers to
LiveDests(S) ==
    (Range(S.destinations) \cup {S.proc[p].dest : p \in Procs}) \ {None}

FreeDests(S) == DestIds \ LiveDests(S)

\* Task slots: a slot is reusable once its task is done and no handle
\* (self.task, a destination's listen_task) other than the one being
\* assigned refers to it.
FreeRoutes(S) == {r \in Routes : S.proc[r].st = "idle"}

FreeListens(S, d) ==
    {l \in Listens : S.proc[l].st = "idle" /\
        \A e \in LiveDests(S) \ {d} : S.dest[e].listen_task # l}

\* Coroutines awaiting task t, oldest first
Waiters(S, t) == SelectSeq(S.waitq, LAMBDA p : S.proc[p].on = t)

NotWaiters(S, t) == SelectSeq(S.waitq, LAMBDA p : S.proc[p].on # t)

Goto(S, p, pc) == [S EXCEPT !.proc[p].pc = pc]

\* `await asyncio.sleep(..)`: p continues at pc
Sleep(S, p, pc) ==
    [S EXCEPT !.proc[p].st = "sleep", !.proc[p].pc = pc,
              !.proc[p].after = Range(S.ready), !.cur = None]

\* `await t`: returns at once when t is done, otherwise suspends the caller;
\* pc is where the caller continues.
Suspends(S, t) == t # None /\ S.proc[t].st # "idle"

Await(S, p, t, pc) ==
    IF Suspends(S, t)
    THEN [S EXCEPT !.proc[p].st = "wait", !.proc[p].on = t, !.proc[p].pc = pc,
                   !.waitq = Append(@, p), !.cur = None]
    ELSE Goto(S, p, pc)

\* Task.cancel(): a task that awaits another task passes the request on to
\* it (asyncio cancels the awaited future); otherwise CancelledError is
\* thrown into the task when it next runs, and a sleeping task is woken.
CancelTarget(S, t) == IF t # None /\ S.proc[t].st = "wait" THEN S.proc[t].on ELSE t

Cancel(S, t) ==
    LET u == CancelTarget(S, t) IN
    IF u = None \/ S.proc[u].st = "idle" THEN S
    ELSE IF S.proc[u].st = "sleep"
    THEN [S EXCEPT !.proc[u].cancel = TRUE, !.proc[u].after = {},
                   !.proc[u].st = "ready", !.ready = Append(@, u)]
    ELSE [S EXCEPT !.proc[u].cancel = TRUE]

\* A task ends: its slot is cleared and the coroutines awaiting it are woken
TaskEnds(S, t) ==
    [S EXCEPT !.proc = [p \in Procs |->
                 IF p = t THEN NoProc
                 ELSE IF S.proc[p].st = "wait" /\ S.proc[p].on = t
                      THEN [S.proc[p] EXCEPT !.st = "ready", !.on = None]
                      ELSE S.proc[p]],
              !.ready = @ \o Waiters(S, t),
              !.waitq = NotWaiters(S, t),
              !.cur = None]

\* asyncio.create_task(self._listen_from_destination(dest))
NewListen(d) == [NoProc EXCEPT !.st = "ready", !.pc = "listen", !.dest = d]

CreateListen(S, d, l) ==
    [S EXCEPT !.proc[l] = NewListen(d), !.dest[d].listen_task = l,
              !.ready = Append(@, l)]

\* asyncio.create_task(self._route_messages())
NewRoute == [NoProc EXCEPT !.st = "ready", !.pc = "route"]

TcpDests(S) == {d \in Range(S.destinations) : S.dest[d].protocol = "tcp"}

Disconnected(S) == {d \in TcpDests(S) : ~S.dest[d].connected}

\* connect() has replaced the sockets of the destinations D without closing
\* them: each one is closed by its finalizer at once, or stays open (and is
\* followed up to MaxUnclosed of them)
Reopened(S, D) ==
    IF ~S.detailed THEN {S}
    ELSE {[S EXCEPT !.unclosed = [d \in DestIds |->
                       IF d \in K THEN @[d] + 1 ELSE @[d]]] :
             K \in SUBSET {d \in D : S.unclosed[d] < MaxUnclosed}}

\* The destinations in the set that hold a socket and are not connected
Stale(S) ==
    {d \in Range(S.destinations) : S.dest[d].socket /\ ~S.dest[d].connected}

\* "Reconnect all destinations and start bidirectional tasks": the loop of
\* start and of _reconnect over self.destinations from position i on.
\* fail is the set of destinations whose connect() fails. No state comes
\* out when the listen-task slots are used up.
RECURSIVE Relaunch(_, _, _)
Relaunch(S, i, fail) ==
    IF i > Len(S.destinations) THEN {S}
    ELSE LET d == S.destinations[i]
             S1 == IF ~S.dest[d].connected
                   THEN [S EXCEPT !.dest[d] = Connect(@, d \notin fail)] ELSE S
             free == FreeListens(S1, d)
         IN IF free = {} THEN {}
            ELSE Relaunch(CreateListen(S1, d, Min(free)), i + 1, fail)

\* The call's result
Ret(S, c, r) == [S EXCEPT !.proc[c].pc = "return", !.proc[c].result = r]

\* -------------------------------------------------------------- configure
\* The configure that opens the link
ConfigureOpens(S, c) ==
    {Goto([S EXCEPT !.serial_port = S.proc[c].port,
                    !.baud_rate = S.proc[c].baud,
                    !.connection = Link], c, "start")}

\* configure stores the two values of the request; start_mavlink then calls
\* start
Configure(S, c) ==
    {Goto([S EXCEPT !.serial_port = S.proc[c].port,
                    !.baud_rate = S.proc[c].baud], c, "start")}

\* -------------------------------------------------------- add_destination
NameTaken(S, name) == \E d \in Range(S.destinations) : S.dest[d].name = name

\* add_destination without the check of the name
AddDestinationUnchecked(S, c, ok) ==
    LET new == NewDest(S.proc[c].name, S.proc[c].protocol)
        d == Min(FreeDests(S))
        S1 == [S EXCEPT !.dest[d] = Connect(new, ok),
                        !.destinations = Append(@, d)]
        free == FreeListens(S1, d)
    IN IF ~ConnectOk(new, ok) THEN {Ret(S, c, "error")}
       ELSE IF FreeDests(S) = {} THEN {}
       ELSE IF ~S.running THEN {Ret(S1, c, "added")}
       ELSE IF free = {} THEN {}
       ELSE {Ret(CreateListen(S1, d, Min(free)), c, "added")}

\* add_destination that creates no listen task
AddDestinationNoListen(S, c, ok) ==
    LET new == NewDest(S.proc[c].name, S.proc[c].protocol)
        d == Min(FreeDests(S))
        S1 == [S EXCEPT !.dest[d] = Connect(new, ok),
                        !.destinations = Append(@, d)]
    IN IF NameTaken(S, S.proc[c].name) \/ ~ConnectOk(new, ok)
       THEN {Ret(S, c, "error")}
       ELSE IF FreeDests(S) = {} THEN {}
       ELSE {Ret(S1, c, "added")}

\* ok: whether the new destination's transport connects
AddDestinationWith(S, c, ok) ==
    LET new == NewDest(S.proc[c].name, S.proc[c].protocol)
        d == Min(FreeDests(S))
        S1 == [S EXCEPT !.dest[d] = Connect(new, ok),
                        !.destinations = Append(@, d)]
        free == FreeListens(S1, d)
    IN IF NameTaken(S, S.proc[c].name) \/ ~ConnectOk(new, ok)
       THEN {Ret(S, c, "error")}
       ELSE IF FreeDests(S) = {} THEN {}
       ELSE IF ~S.running THEN {Ret(S1, c, "added")}
       ELSE IF free = {} THEN {}
       ELSE {Ret(CreateListen(S1, d, Min(free)), c, "added")}

AddDestination(S, c) ==
    UNION {AddDestinationWith(S, c, ok) : ok \in BOOLEAN}

\* ----------------------------------------------------- remove_destination
\* dest.listen_task = None (after the await), dest.close(),
\* self.destinations.remove(dest): remove raises ValueError, which the
\* handler turns into an error result, when dest has left the list
RemoveClose(S, c, d) ==
    LET S1 == [S EXCEPT !.dest[d] = Close([@ EXCEPT !.listen_task = None])]
    IN IF d \in Range(S.destinations)
       THEN Ret([S1 EXCEPT !.destinations = RemoveFirst(@, d)], c, "removed")
       ELSE Ret(S1, c, "error")

RemoveDestination(S, c) ==
    LET hits == {i \in 1..Len(S.destinations) :
                    S.dest[S.destinations[i]].name = S.proc[c].name}
        d == S.destinations[Min(hits)]
        lt == S.dest[d].listen_task
    IN IF hits = {} THEN {Ret(S, c, "error")}
       ELSE IF lt # None
       THEN {Await(Cancel([S EXCEPT !.proc[c].dest = d], lt), c, lt,
                   "remove_lt_done")}
       ELSE {RemoveClose([S EXCEPT !.proc[c].dest = d], c, d)}

RemoveListenDone(S, c) == {RemoveClose(S, c, S.proc[c].dest)}

\* ------------------------------------------------------------------ start
\* The except clause of start
StartFail(S, c) ==
    Ret([S EXCEPT !.running = FALSE, !.connection = None], c, "error")

\* start without the check of self.running
StartUnguarded(S, c) ==
    IF S.serial_port = "" THEN {Ret(S, c, "error")}
    ELSE {Goto([S EXCEPT !.connection = Link], c, "start_wait"), StartFail(S, c)}

\* opened: whether mavutil.mavlink_connection returns a link (or raises)
Start(S, c) ==
    IF S.running \/ S.serial_port = "" THEN {Ret(S, c, "error")}
    ELSE {Goto([S EXCEPT !.connection = Link], c, "start_wait"), StartFail(S, c)}

\* One pass of `while not self.heartbeat_received`; the outcome is what
\* recv_match and the clock give: a HEARTBEAT, nothing yet, nothing and the
\* timeout has passed, or an exception of the link.
HeartbeatOutcomes == {"heartbeat", "none", "timeout", "raise"}

StartWaitWith(S, c, outcome) ==
    IF S.heartbeat_received THEN Goto(S, c, "start_launch")
    ELSE IF S.connection = None \/ outcome \in {"timeout", "raise"}
    THEN StartFail(S, c)
    ELSE IF outcome = "heartbeat"
    THEN Goto([S EXCEPT !.heartbeat_received = TRUE,
                        !.last_heartbeat = "fresh"], c, "start_launch")
    ELSE Sleep(S, c, "start_wait")

StartWait(S, c) == {StartWaitWith(S, c, o) : o \in HeartbeatOutcomes}

\* The start that begins its counters anew
StartLaunchedResets(S, c) ==
    LET r == Min(FreeRoutes(S))
        S1 == [S EXCEPT !.running = TRUE, !.retry_count = 0, !.task = r,
                        !.proc[r] = NewRoute, !.ready = Append(@, r),
                        !.stats = [messages_received |-> 0,
                                   messages_forwarded |-> 0, errors |-> 0]]
    IN IF FreeRoutes(S) = {} THEN {}
       ELSE IF S.connection # None THEN {Ret(S1, c, "started")}
       ELSE {StartFail(S1, c)}

\* The destinations are relaunched, running and retry_count are set and the
\* forwarding task is created. Reading self.connection.target_system for
\* the result raises when the link is gone, and the except clause then runs
\* after the tasks were launched.
StartLaunched(S, c) ==
    LET r == Min(FreeRoutes(S))
        S1 == [S EXCEPT !.running = TRUE, !.retry_count = 0, !.task = r,
                        !.proc[r] = NewRoute, !.ready = Append(@, r)]
    IN IF FreeRoutes(S) = {} THEN {}
       ELSE IF S.connection # None THEN {Ret(S1, c, "started")}
       ELSE {StartFail(S1, c)}

StartLaunch(S, c) ==
    UNION {StartLaunched(U, c) :
             U \in UNION {Reopened(T, Stale(S)) :
                     T \in UNION {Relaunch(S, 1, fail) :
                             fail \in SUBSET Disconnected(S)}}}

\* ------------------------------------------------------------------- stop
\* stop without the check of self.running
StopUnguarded(S, c) ==
    LET S1 == [S EXCEPT !.running = FALSE] IN
    IF S.task # None
    THEN {Await(Cancel(S1, S.task), c, S.task, "stop_task_done")}
    ELSE {Goto([S1 EXCEPT !.connection = None, !.proc[c].idx = 1], c,
               "stop_loop")}

Stop(S, c) ==
    IF ~S.running THEN {Ret(S, c, "error")}
    ELSE LET S1 == [S EXCEPT !.running = FALSE] IN
         IF S.task # None
         THEN {Await(Cancel(S1, S.task), c, S.task, "stop_task_done")}
         ELSE {Goto([S1 EXCEPT !.connection = None, !.proc[c].idx = 1], c,
                    "stop_loop")}

\* after `await self.task`: self.task = None, then the link is closed
StopTaskDone(S, c) ==
    {Goto([S EXCEPT !.task = None, !.connection = None, !.proc[c].idx = 1], c,
          "stop_loop")}

\* the loop of stop, emptying self.destinations when it ends
StopLoopClears(S, c) ==
    LET i == S.proc[c].idx
        d == S.destinations[i]
        lt == S.dest[d].listen_task
        S1 == [S EXCEPT !.proc[c].idx = i + 1]
    IN IF i > Len(S.destinations)
       THEN {Ret([S EXCEPT !.heartbeat_received = FALSE, !.proc[c].idx = 0,
                           !.destinations = <<>>], c, "stopped")}
       ELSE IF lt # None
       THEN {Await(Cancel([S1 EXCEPT !.proc[c].dest = d], lt), c, lt,
                   "stop_lt_done")}
       ELSE {[S1 EXCEPT !.dest[d] = Close(@)]}

\* `for dest in self.destinations`: the list iterator keeps a position and
\* reads the list as it is when the next element is fetched
StopLoop(S, c) ==
    LET i == S.proc[c].idx
        d == S.destinations[i]
        lt == S.dest[d].listen_task
        S1 == [S EXCEPT !.proc[c].idx = i + 1]
    IN IF i > Len(S.destinations)
       THEN {Ret([S EXCEPT !.heartbeat_received = FALSE, !.proc[c].idx = 0], c,
                 "stopped")}
       ELSE IF lt # None
       THEN {Await(Cancel([S1 EXCEPT !.proc[c].dest = d], lt), c, lt,
                   "stop_lt_done")}
       ELSE {[S1 EXCEPT !.dest[d] = Close(@)]}

StopListenDone(S, c) ==
    {Goto([S EXCEPT !.dest[S.proc[c].dest] = Close([@ EXCEPT !.listen_task = None]),
                    !.proc[c].dest = None], c, "stop_loop")}

\* ------------------------------------------------ _listen_from_destination
RecvOutcomes == {"data", "none", "error"}

\* A buffer that recv returns is written to the link if there is one
Heard(S, d, o) ==
    LET buf == <<d, Len(S.received[d]) + 1>> IN
    IF ~S.followed \/ ~RecvData(S.dest[d], o) THEN S
    ELSE [S EXCEPT !.received[d] = Append(@, buf),
                   !.written = IF S.connection # None THEN Append(@, buf) ELSE @]

Listen(S, l) ==
    IF ~S.running THEN {TaskEnds(S, l)}
    ELSE {Sleep([Heard(S, S.proc[l].dest, o)
                    EXCEPT !.dest[S.proc[l].dest] = Recv(@, o)], l, "listen") :
            o \in RecvOutcomes}

\* --------------------------------------------------------- _route_messages
\* Top of `while self.running` and the heartbeat-timeout check
RouteLoop(S, r) ==
    IF ~S.running THEN {TaskEnds(S, r)}
    ELSE IF auto_retry /\ S.last_heartbeat = "stale" /\ S.proc[r].idle_count = 0
    THEN IF S.retry_count < max_retries
         THEN {Goto([S EXCEPT !.retry_count = @ + 1, !.proc[r].via = "hb"], r,
                    "reconnect")}
         ELSE {TaskEnds([S EXCEPT !.running = FALSE], r)}
    ELSE {Goto([S EXCEPT !.proc[r].messages_processed = 0], r, "drain")}

\* "Forward to all destinations": dest.send, and dest.connect where the send
\* fails. sendfail, connfail: the destinations whose transport call fails.
\* The destinations whose send returns True
Sends(S, sendfail) ==
    {d \in Range(S.destinations) : SendOk(S.dest[d], d \notin sendfail)}

\* The forwarding that counts a send to every destination as forwarded
ForwardedCountsAll(S, ok) ==
    IF ~S.followed THEN S
    ELSE [S EXCEPT !.sent = [d \in DestIds |->
                      IF d \in ok THEN Append(S.sent[d], S.read[Len(S.read)])
                      ELSE S.sent[d]],
                   !.stats.messages_forwarded =
                       @ + Cardinality(Range(S.destinations))]

\* The forwarding that sends each buffer twice
ForwardedTwice(S, ok) ==
    IF ~S.followed THEN S
    ELSE [S EXCEPT !.sent = [d \in DestIds |->
                      IF d \in ok
                      THEN S.sent[d] \o <<S.read[Len(S.read)], S.read[Len(S.read)]>>
                      ELSE S.sent[d]],
                   !.stats.messages_forwarded = @ + 2 * Cardinality(ok),
                   !.stats.errors = @ + Cardinality(Range(S.destinations) \ ok)]

\* The forwarding that counts no error for a destination it leaves
\* disconnected
ForwardedSkipsDisconnected(S, ok) ==
    IF ~S.followed THEN S
    ELSE [S EXCEPT !.sent = [d \in DestIds |->
                      IF d \in ok THEN Append(S.sent[d], S.read[Len(S.read)])
                      ELSE S.sent[d]],
                   !.stats.messages_forwarded = @ + Cardinality(ok),
                   !.stats.errors =
                       @ + Cardinality({d \in Range(S.destinations) \ ok :
                                           S.dest[d].connected})]

\* The buffer of the message read last goes out through the sockets of ok;
\* stats counts a send that returns True as forwarded, any other as an error
Forwarded(S, ok) ==
    IF ~S.followed THEN S
    ELSE [S EXCEPT !.sent = [d \in DestIds |->
                      IF d \in ok THEN Append(S.sent[d], S.read[Len(S.read)])
                      ELSE S.sent[d]],
                   !.stats.messages_forwarded = @ + Cardinality(ok),
                   !.stats.errors = @ + Cardinality(Range(S.destinations) \ ok)]

\* The forwarding that makes no connect attempt after a failed send
ForwardNoReconnect(S, sendfail, connfail) ==
    Forwarded([S EXCEPT !.dest = [d \in DestIds |->
        IF d \notin Range(S.destinations) THEN S.dest[d]
        ELSE Send(S.dest[d], d \notin sendfail)]],
              Sends(S, sendfail))

Forward(S, sendfail, connfail) ==
    Forwarded([S EXCEPT !.dest = [d \in DestIds |->
        IF d \notin Range(S.destinations) \/ SendOk(S.dest[d], d \notin sendfail)
        THEN S.dest[d]
        ELSE Connect(Send(S.dest[d], d \notin sendfail), d \notin connfail)]],
              Sends(S, sendfail))

\* "Adaptive sleep" at the end of one pass of the loop
Backoff(S, r) ==
    Sleep([S EXCEPT !.proc[r].messages_processed = 0,
                    !.proc[r].idle_count =
                        IF S.proc[r].messages_processed > 0 THEN @
                        ELSE IF @ < IdleCap THEN @ + 1 ELSE @], r, "backoff")

\* self.telemetry of a new router
NoTelemetry ==
    [altitude |-> None, groundspeed |-> None, airspeed |-> None,
     heading |-> None, battery_voltage |-> None, battery_current |-> None,
     battery_remaining |-> None, latitude |-> None, longitude |-> None,
     gps_fix_type |-> None, gps_satellites |-> None, mode |-> None,
     armed |-> FALSE, throttle |-> None, climb_rate |-> None]

\* The parse that takes a type it does not know for a HEARTBEAT
FieldsOfAnyType(type) ==
    CASE type = "GLOBAL_POSITION_INT" ->
            <<"latitude", "longitude", "altitude", "heading">>
      [] type = "VFR_HUD" ->
            <<"groundspeed", "airspeed", "heading", "throttle", "climb_rate">>
      [] type = "SYS_STATUS" ->
            <<"battery_voltage", "battery_current", "battery_remaining">>
      [] type = "GPS_RAW_INT" -> <<"gps_fix_type", "gps_satellites">>
      [] OTHER -> <<"armed", "mode">>

\* The fields _parse_telemetry assigns for a message of the type, in the
\* order of its assignments
Fields(type) ==
    CASE type = "GLOBAL_POSITION_INT" ->
            <<"latitude", "longitude", "altitude", "heading">>
      [] type = "VFR_HUD" ->
            <<"groundspeed", "airspeed", "heading", "throttle", "climb_rate">>
      [] type = "SYS_STATUS" ->
            <<"battery_voltage", "battery_current", "battery_remaining">>
      [] type = "GPS_RAW_INT" -> <<"gps_fix_type", "gps_satellites">>
      [] type = "HEARTBEAT" -> <<"armed", "mode">>
      [] OTHER -> <<>>

\* _parse_telemetry: msg.value stands for what the message carries for a
\* field, msg.armed for bit 128 of its base_mode; upto is the number of
\* assignments made before one raises and the except clause ends the parse
ParseTelemetry(tel, msg, upto) ==
    LET fields == Fields(msg.type)
        set == {fields[i] : i \in 1..Min({upto, Len(fields)})}
    IN [f \in DOMAIN tel |->
          IF f \notin set THEN tel[f]
          ELSE IF f = "armed" THEN msg.armed ELSE msg.value]

\* The types of the messages: "OTHER" stands for every type that
\* _parse_telemetry has no branch for
Types ==
    {"GLOBAL_POSITION_INT", "VFR_HUD", "SYS_STATUS", "GPS_RAW_INT", "HEARTBEAT",
     "OTHER"}

\* What recv_match can give: a message of a type, whose fields can be
\* extracted up to the upto-th assignment of _parse_telemetry. Where the
\* types are not followed a message is a HEARTBEAT or is not, and is well
\* formed.
Messages(S) ==
    IF S.typed
    THEN UNION {{[type |-> t, upto |-> n] : n \in 0..Len(Fields(t))} :
                   t \in Types}
    ELSE {[type |-> t, upto |-> Len(Fields(t))] : t \in {"HEARTBEAT", "OTHER"}}

\* The parse whose failure is counted as an error of the loop
ParsedCountsFailure(S, r, msg) ==
    LET S1 == IF ~S.typed THEN S
              ELSE [S EXCEPT !.proc[r].msg_type = msg.type,
                             !.proc[r].assigned = msg.upto]
        S2 == IF msg.upto < Len(Fields(msg.type))
              THEN [S1 EXCEPT !.stats.errors = @ + 1] ELSE S1
    IN IF ~S.detailed THEN S2
       ELSE [S2 EXCEPT !.telemetry =
                ParseTelemetry(@, [type |-> msg.type, value |-> Len(S.read),
                                   armed |-> TRUE], msg.upto)]

\* The message read last is parsed where the snapshot is followed; the
\* coroutine keeps the type of its message and the number of assignments
\* made where the types are followed
Parsed(S, r, msg) ==
    LET S1 == IF ~S.typed THEN S
              ELSE [S EXCEPT !.proc[r].msg_type = msg.type,
                             !.proc[r].assigned = msg.upto]
    IN IF ~S.detailed THEN S1
       ELSE [S1 EXCEPT !.telemetry =
                ParseTelemetry(@, [type |-> msg.type, value |-> Len(S.read),
                                   armed |-> TRUE], msg.upto)]

\* recv_match has given the next message of the link: it is counted
Read(S) ==
    IF ~S.followed THEN S
    ELSE [S EXCEPT !.stats.messages_received = @ + 1,
                   !.read = Append(@, Len(@) + 1)]

\* A message is handled: counted, its heartbeat time kept, and forwarded
Handle(S, r, msg) ==
    LET S1 == Parsed(Read([S EXCEPT !.proc[r].messages_processed = @ + 1,
                                    !.proc[r].idle_count = 0,
                                    !.last_heartbeat =
                                        IF msg.type = "HEARTBEAT" THEN "fresh"
                                        ELSE @]),
                     r, msg)
    IN UNION {Reopened(Forward(S1, sendfail, connfail),
                       {d \in Range(S.destinations) \ Sends(S, sendfail) :
                            S.dest[d].socket}) :
                sendfail \in SUBSET Range(S.destinations),
                connfail \in SUBSET TcpDests(S)}

\* The link has a message to give: where the traffic is followed it gives
\* MaxMessages messages and no more
Delivers(S) == ~S.followed \/ Len(S.read) < MaxMessages

\* One pass of `while messages_processed < batch_size`: recv_match gives a
\* message, or nothing, or raises
Drain(S, r) ==
    IF S.proc[r].messages_processed >= batch_size THEN {Backoff(S, r)}
    ELSE IF S.connection = None
    THEN {Goto([S EXCEPT !.proc[r].messages_processed = 0], r, "except")}
    ELSE {Backoff(S, r),
          Goto([S EXCEPT !.proc[r].messages_processed = 0], r, "except")}
         \cup (IF Delivers(S)
               THEN UNION {Handle(S, r, msg) : msg \in Messages(S)}
               ELSE {})

\* The except clause that retries without a limit
ExceptUnlimited(S, r) ==
    LET S1 == IF S.followed THEN [S EXCEPT !.stats.errors = @ + 1] ELSE S IN
    IF auto_retry
    THEN {Sleep([S1 EXCEPT !.retry_count = @ + 1, !.proc[r].via = "exc"], r,
                "except_delay")}
    ELSE {Sleep(S1, r, "except_pause")}

\* The `except Exception` clause of the loop
Except(S, r) ==
    LET S1 == IF S.followed THEN [S EXCEPT !.stats.errors = @ + 1] ELSE S IN
    IF auto_retry /\ S.retry_count < max_retries
    THEN {Sleep([S1 EXCEPT !.retry_count = @ + 1, !.proc[r].via = "exc"], r,
                "except_delay")}
    ELSE {Sleep(S1, r, "except_pause")}

\* -------------------------------------------------------------- _reconnect
\* "Close old connection"
Reconnect(S, r) ==
    {Goto([S EXCEPT !.connection = None, !.proc[r].idx = 1], r, "rc_loop")}

\* "Cancel and restart all destination listen tasks", then sleep(1)
ReconnectLoop(S, r) ==
    LET i == S.proc[r].idx
        d == S.destinations[i]
        lt == S.dest[d].listen_task
        S1 == [S EXCEPT !.proc[r].idx = i + 1]
    IN IF i > Len(S.destinations)
       THEN {Sleep([S EXCEPT !.proc[r].idx = 0], r, "rc_open")}
       ELSE IF lt # None
       THEN {Await(Cancel([S1 EXCEPT !.proc[r].dest = d], lt), r, lt, "rc_lt_done")}
       ELSE {S1}

\* after `await dest.listen_task`; a CancelledError thrown here, the task's
\* own cancellation included, is swallowed by `except CancelledError: pass`
ReconnectListenDone(S, r) ==
    {Goto([S EXCEPT !.dest[S.proc[r].dest].listen_task = None,
                    !.proc[r].dest = None, !.proc[r].cancel = FALSE], r,
          "rc_loop")}

\* _reconnect returns ok to the loop
Returns(S, r, ok) ==
    [S EXCEPT !.proc[r].pc = "rc_done",
              !.proc[r].result = IF ok THEN "ok" ELSE "failed"]

\* "Try to reconnect": mavutil.mavlink_connection returns a link or raises
ReconnectOpen(S, r) ==
    {Goto([S EXCEPT !.connection = Link], r, "rc_wait"),
     Returns([S EXCEPT !.connection = None], r, FALSE)}

\* One pass of the heartbeat wait of _reconnect
ReconnectWaitWith(S, r, outcome) ==
    IF S.connection = None \/ outcome \in {"timeout", "raise"}
    THEN Returns([S EXCEPT !.connection = None], r, FALSE)
    ELSE IF outcome = "heartbeat"
    THEN Goto([S EXCEPT !.heartbeat_received = TRUE,
                        !.last_heartbeat = "fresh"], r, "rc_relaunch")
    ELSE Sleep(S, r, "rc_wait")

ReconnectWait(S, r) == {ReconnectWaitWith(S, r, o) : o \in HeartbeatOutcomes}

\* The cycle that returns success without its last loop
ReconnectNoRelaunch(S, r) == {Returns(S, r, TRUE)}

\* "Reconnect all destinations and restart listen tasks"
ReconnectRelaunch(S, r) ==
    {Returns(U, r, TRUE) :
        U \in UNION {Reopened(T, Stale(S)) :
                T \in UNION {Relaunch(S, 1, fail) :
                        fail \in SUBSET Disconnected(S)}}}

\* Back in _route_messages with the result of _reconnect: after the
\* heartbeat-timeout check, or inside the except clause
ReconnectDone(S, r) ==
    LET S1 == [S EXCEPT !.proc[r].result = "", !.proc[r].via = ""]
    IN IF S.proc[r].via = "hb"
       THEN IF S.proc[r].result = "ok"
            THEN {Goto([S1 EXCEPT !.retry_count = 0], r, "loop")}
            ELSE {Sleep(S1, r, "retry_delay")}
       ELSE {Goto(S1, r, "loop")}

\* -------------------------------------------------------------- get_status
\* No object is in the hands of a reader
NoStatus == <<>>

\* The status that reports the link as open while the router runs
GetStatusLinkFromRunning(S) ==
    [running |-> S.running,
     connected |-> S.running,
     heartbeat_received |-> S.heartbeat_received,
     serial_port |-> S.serial_port,
     baud_rate |-> S.baud_rate,
     destinations |-> [i \in 1..Len(S.destinations) |->
                         [name |-> S.dest[S.destinations[i]].name,
                          protocol |-> S.dest[S.destinations[i]].protocol,
                          connected |-> S.dest[S.destinations[i]].connected]],
     stats |-> [messages_received |-> S.stats.messages_received,
                messages_forwarded |-> S.stats.messages_forwarded,
                errors |-> S.stats.errors,
                last_heartbeat |-> S.last_heartbeat],
     telemetry |-> S.telemetry,
     retry_count |-> S.retry_count,
     max_retries |-> max_retries,
     auto_retry |-> auto_retry]

\* The dict get_status builds; host and port of a destination are not
\* modelled, and stats["last_heartbeat"] is given by its age
GetStatus(S) ==
    [running |-> S.running,
     connected |-> S.connection # None,
     heartbeat_received |-> S.heartbeat_received,
     serial_port |-> S.serial_port,
     baud_rate |-> S.baud_rate,
     destinations |-> [i \in 1..Len(S.destinations) |->
                         [name |-> S.dest[S.destinations[i]].name,
                          protocol |-> S.dest[S.destinations[i]].protocol,
                          connected |-> S.dest[S.destinations[i]].connected]],
     stats |-> [messages_received |-> S.stats.messages_received,
                messages_forwarded |-> S.stats.messages_forwarded,
                errors |-> S.stats.errors,
                last_heartbeat |-> S.last_heartbeat],
     telemetry |-> S.telemetry,
     retry_count |-> S.retry_count,
     max_retries |-> max_retries,
     auto_retry |-> auto_retry]

\* ------------------------------------------------------------- event loop
\* CancelledError is no Exception: it passes the `except Exception` clauses
\* of _route_messages, _reconnect and _listen_from_destination and ends the
\* task. Only `await dest.listen_task` in _reconnect sits inside
\* `except asyncio.CancelledError: pass`.
Cancelled(S, p) == S.proc[p].cancel /\ S.proc[p].pc # "rc_lt_done"

\* The next step of coroutine p, by its position in the code
Step(S, p) ==
    LET pc == S.proc[p].pc IN
    IF Cancelled(S, p) THEN {TaskEnds(S, p)}
    ELSE CASE pc = "start_mavlink" -> Configure(S, p)
           [] pc = "start" -> Start(S, p)
           [] pc = "start_wait" -> StartWait(S, p)
           [] pc = "start_launch" -> StartLaunch(S, p)
           [] pc = "stop" -> Stop(S, p)
           [] pc = "stop_task_done" -> StopTaskDone(S, p)
           [] pc = "stop_loop" -> StopLoop(S, p)
           [] pc = "stop_lt_done" -> StopListenDone(S, p)
           [] pc = "add" -> AddDestination(S, p)
           [] pc = "remove" -> RemoveDestination(S, p)
           [] pc = "remove_lt_done" -> RemoveListenDone(S, p)
           [] pc = "listen" -> Listen(S, p)
           [] pc \in {"route", "loop", "backoff", "retry_delay", "except_pause"}
                -> RouteLoop(S, p)
           [] pc = "drain" -> Drain(S, p)
           [] pc = "except" -> Except(S, p)
           [] pc \in {"reconnect", "except_delay"} -> Reconnect(S, p)
           [] pc = "rc_loop" -> ReconnectLoop(S, p)
           [] pc = "rc_lt_done" -> ReconnectListenDone(S, p)
           [] pc = "rc_open" -> ReconnectOpen(S, p)
           [] pc = "rc_wait" -> ReconnectWait(S, p)
           [] pc = "rc_relaunch" -> ReconnectRelaunch(S, p)
           [] pc = "rc_done" -> ReconnectDone(S, p)

\* p runs until it suspends, ends, or has its result
RECURSIVE RunOn(_, _)
RunOn(S, p) ==
    IF S.cur # p \/ S.proc[p].pc = "return" THEN {S}
    ELSE UNION {RunOn(T, p) : T \in Step(S, p)}

\* The loop picks p: the oldest callback, or a sleeper whose sleep has
\* ended and that no older callback precedes
Runnable(p) ==
    /\ cur = None
    /\ \/ ready # <<>> /\ Head(ready) = p
       \/ proc[p].st = "sleep" /\ proc[p].after = {}

Picked(S, p) ==
    [S EXCEPT !.cur = p,
              !.ready = IF S.proc[p].st = "ready" THEN Tail(@) ELSE @,
              !.proc = [q \in Procs |->
                          IF q = p THEN [S.proc[q] EXCEPT !.st = "run"]
                          ELSE IF S.proc[p].st = "ready"
                               THEN [S.proc[q] EXCEPT !.after = @ \ {p}]
                               ELSE S.proc[q]]]

Becomes(S) ==
    /\ serial_port' = S.serial_port
    /\ baud_rate' = S.baud_rate
    /\ connection' = S.connection
    /\ running' = S.running
    /\ task' = S.task
    /\ heartbeat_received' = S.heartbeat_received
    /\ retry_count' = S.retry_count
    /\ last_heartbeat' = S.last_heartbeat
    /\ destinations' = S.destinations
    /\ dest' = S.dest
    /\ proc' = S.proc
    /\ ready' = S.ready
    /\ waitq' = S.waitq
    /\ cur' = S.cur

Ran(p) ==
    /\ Runnable(p)
    /\ \E T \in RunOn(Picked(State, p), p) : Becomes(T)
    /\ UNCHANGED <<requests, status>>

\* The counters and the traffic are followed in the specifications Traffic
\* and Serving only; elsewhere a run leaves them out of account
Run(p) == Ran(p) /\ UNCHANGED <<turns, traffic>>

Logged(S) ==
    /\ stats' = S.stats
    /\ read' = S.read
    /\ written' = S.written
    /\ sent' = S.sent
    /\ received' = S.received
    /\ telemetry' = S.telemetry
    /\ unclosed' = S.unclosed

\* Nothing has passed yet
Silent ==
    /\ stats = [messages_received |-> 0, messages_forwarded |-> 0, errors |-> 0]
    /\ read = <<>>
    /\ written = <<>>
    /\ sent = [d \in DestIds |-> <<>>]
    /\ received = [d \in DestIds |-> <<>>]
    /\ telemetry = NoTelemetry
    /\ unclosed = [d \in DestIds |-> 0]
    /\ status = NoStatus

\* ------------------------------------------------------------------- Init
Init ==
    /\ serial_port = ""
    /\ baud_rate = DefaultBaud
    /\ connection = None
    /\ running = FALSE
    /\ task = None
    /\ heartbeat_received = FALSE
    /\ retry_count = 0
    /\ last_heartbeat = "none"
    /\ destinations = <<>>
    /\ dest = [d \in DestIds |-> NoDest]
    /\ proc = [p \in Procs |-> NoProc]
    /\ ready = <<>>
    /\ waitq = <<>>
    /\ cur = None
    /\ requests = 0
    /\ turns = 0
    /\ Silent

\* ---------------------------------------------------------------- actions
\* An API call arrives: its coroutine is queued.
PendingAdds == Cardinality({c \in Calls : proc[c].op = "add"})

Request(c, op, name, protocol, port, baud) ==
    /\ cur = None
    /\ \A b \in Calls : b < c => proc[b].st # "idle"
    /\ requests < MaxRequests
    /\ op = "add" => Cardinality(FreeDests(State)) > PendingAdds
    /\ proc' = [proc EXCEPT ![c] = [NoProc EXCEPT !.st = "ready", !.pc = op,
                    !.op = op, !.name = name, !.protocol = protocol,
                    !.port = port, !.baud = baud]]
    /\ ready' = Append(ready, c)
    /\ requests' = requests + 1
    /\ UNCHANGED <<router, dest, waitq, cur, turns, traffic, status>>

\* POST /telemetry/start: configure, then start
StartMavlinkArrives ==
    \E c \in Calls, port \in Ports :
        proc[c].st = "idle" /\ Request(c, "start_mavlink", None, "", port, DefaultBaud)

StopArrives ==
    \E c \in Calls : proc[c].st = "idle" /\ Request(c, "stop", None, "", "", None)

\* The names in use, and the names a call is made with: a name in use, or
\* one new name (the names not in use are interchangeable)
UsedNames ==
    ({dest[d].name : d \in LiveDests(State)} \cup {proc[c].name : c \in Calls})
        \ {None}

CallNames ==
    UsedNames \cup (IF Names \subseteq UsedNames THEN {} ELSE {Min(Names \ UsedNames)})

AddDestinationArrives ==
    \E c \in Calls, n \in CallNames, pr \in Protocols :
        proc[c].st = "idle" /\ Request(c, "add", n, pr, "", None)

RemoveDestinationArrives ==
    \E c \in Calls, n \in CallNames :
        proc[c].st = "idle" /\ Request(c, "remove", n, "", "", None)

\* A call runs from its start or from where it was resumed
StartMavlinkRuns == \E c \in Calls : proc[c].op = "start_mavlink" /\ Run(c)

StopRuns == \E c \in Calls : proc[c].op = "stop" /\ Run(c)

AddDestinationRuns == \E c \in Calls : proc[c].op = "add" /\ Run(c)

RemoveDestinationRuns == \E c \in Calls : proc[c].op = "remove" /\ Run(c)

\* The call's result is handed to the caller.
Return(c) ==
    /\ cur = c
    /\ proc[c].pc = "return"
    /\ proc' = [proc EXCEPT ![c] = NoProc]
    /\ cur' = None
    /\ UNCHANGED <<router, dest, ready, waitq, requests, turns, traffic, status>>

Returned == \E c \in Calls : proc[c].st = "run" /\ Return(c)

\* The tasks run from their start or from where they were resumed
RouteMessagesRuns == \E r \in Routes : proc[r].st # "idle" /\ Run(r)

ListenRuns == \E l \in Listens : proc[l].st # "idle" /\ Run(l)

\* More than heartbeat_timeout seconds pass since stats["last_heartbeat"]:
\* time passes while the loop has no callback to run.
HeartbeatTimeout ==
    /\ cur = None
    /\ ready = <<>>
    /\ last_heartbeat = "fresh"
    /\ last_heartbeat' = "stale"
    /\ UNCHANGED <<serial_port, baud_rate, connection, running, task,
                   heartbeat_received, retry_count, destinations, dest, sched,
                   traffic>>

Runs ==
    \/ StartMavlinkRuns
    \/ StopRuns
    \/ AddDestinationRuns
    \/ RemoveDestinationRuns
    \/ Returned
    \/ RouteMessagesRuns
    \/ ListenRuns

Next ==
    \/ StartMavlinkArrives
    \/ StopArrives
    \/ AddDestinationArrives
    \/ RemoveDestinationArrives
    \/ HeartbeatTimeout
    \/ Runs

Spec == Init /\ [][Next]_vars

\* ----------------------------------------------------------------- flight
\* The router in flight: "udp" destination 1 was added, start has returned
\* "started" and no further call is made. The state is the one Spec reaches
\* by a stop that fails, add_destination and start_mavlink.
Flight ==
    /\ serial_port = "/dev/ttyACM0"
    /\ baud_rate = DefaultBaud
    /\ connection = Link
    /\ running = TRUE
    /\ task = Min(Routes)
    /\ heartbeat_received = TRUE
    /\ retry_count = 0
    /\ last_heartbeat = "fresh"
    /\ destinations = <<1>>
    /\ dest = [d \in DestIds |->
                 IF d = 1 THEN [Connect(NewDest(1, "udp"), TRUE)
                                  EXCEPT !.listen_task = Min(Listens)]
                 ELSE NoDest]
    /\ proc = [p \in Procs |->
                 IF p = Min(Listens) THEN NewListen(1)
                 ELSE IF p = Min(Routes) THEN NewRoute ELSE NoProc]
    /\ ready = <<Min(Listens), Min(Routes)>>
    /\ waitq = <<>>
    /\ cur = None
    /\ requests = MaxRequests
    /\ turns = 0
    /\ Silent

\* A run of the forwarding task, counted: a pass of its loop that leaves the
\* router as it was is a step all the same
RouteMessagesTurns ==
    \E r \in Routes :
        proc[r].st # "idle" /\ Ran(r) /\ turns' = 1 - turns /\ UNCHANGED traffic

Flies == HeartbeatTimeout \/ RouteMessagesTurns \/ ListenRuns

\* The event loop runs every runnable task, and every sleep ends.
InFlight ==
    Flight /\ [][Flies]_vars /\ WF_vars(RouteMessagesTurns) /\ WF_vars(ListenRuns)

\* --------------------------------------------------------------- crossing
\* The router in flight with two destinations: "udp" destinations 1 and 2
\* were added and start has returned "started". Calls of stop and of
\* remove_destination cross the traversals the router makes of the list.
Paired ==
    /\ serial_port = "/dev/ttyACM0"
    /\ baud_rate = DefaultBaud
    /\ connection = Link
    /\ running = TRUE
    /\ task = Min(Routes)
    /\ heartbeat_received = TRUE
    /\ retry_count = 0
    /\ last_heartbeat = "fresh"
    /\ destinations = <<1, 2>>
    /\ dest = [d \in DestIds |->
                 IF d \in {1, 2}
                 THEN [Connect(NewDest(d, "udp"), TRUE)
                         EXCEPT !.listen_task = Min(Listens) + d - 1]
                 ELSE NoDest]
    /\ proc = [p \in Procs |->
                 IF p \in {Min(Listens), Min(Listens) + 1}
                 THEN NewListen(p - Min(Listens) + 1)
                 ELSE IF p = Min(Routes) THEN NewRoute ELSE NoProc]
    /\ ready = <<Min(Listens), Min(Listens) + 1, Min(Routes)>>
    /\ waitq = <<>>
    /\ cur = None
    /\ requests = MaxRequests - MaxCrossings
    /\ turns = 0
    /\ Silent

Crosses ==
    \/ StopArrives
    \/ RemoveDestinationArrives
    \/ HeartbeatTimeout
    \/ StopRuns
    \/ RemoveDestinationRuns
    \/ Returned
    \/ RouteMessagesRuns
    \/ ListenRuns

Crossing == Paired /\ [][Crosses]_vars

\* ---------------------------------------------------------------- traffic
\* The router in flight with "udp" destination 1 and "tcp" destination 2, no
\* call being made: the link delivers up to MaxMessages messages, each
\* ground station sends up to MaxBuffers buffers, and the counters and the
\* traffic are followed.
Carrying ==
    /\ serial_port = "/dev/ttyACM0"
    /\ baud_rate = DefaultBaud
    /\ connection = Link
    /\ running = TRUE
    /\ task = Min(Routes)
    /\ heartbeat_received = TRUE
    /\ retry_count = 0
    /\ last_heartbeat = "fresh"
    /\ destinations = <<1, 2>>
    /\ dest = [d \in DestIds |->
                 IF d \in {1, 2}
                 THEN [Connect(NewDest(d, IF d = 1 THEN "udp" ELSE "tcp"), TRUE)
                         EXCEPT !.listen_task = Min(Listens) + d - 1]
                 ELSE NoDest]
    /\ proc = [p \in Procs |->
                 IF p \in {Min(Listens), Min(Listens) + 1}
                 THEN NewListen(p - Min(Listens) + 1)
                 ELSE IF p = Min(Routes) THEN NewRoute ELSE NoProc]
    /\ ready = <<Min(Listens), Min(Listens) + 1, Min(Routes)>>
    /\ waitq = <<>>
    /\ cur = None
    /\ requests = MaxRequests
    /\ turns = 0
    /\ Silent

WithinBounds(S) ==
    /\ Len(S.read) <= MaxMessages
    /\ S.stats.errors <= MaxErrors
    /\ \A d \in DestIds : Len(S.received[d]) <= MaxBuffers
    /\ \A d \in DestIds : S.unclosed[d] <= MaxUnclosed

\* A run with its traffic
Carried(p) ==
    /\ Runnable(p)
    /\ \E T \in RunOn(Picked(Followed, p), p) :
          WithinBounds(T) /\ Becomes(T) /\ Logged(T)
    /\ UNCHANGED <<requests, turns, status>>

RouteMessagesCarries == \E r \in Routes : proc[r].st # "idle" /\ Carried(r)

ListenCarries == \E l \in Listens : proc[l].st # "idle" /\ Carried(l)

Carries == HeartbeatTimeout \/ RouteMessagesCarries \/ ListenCarries

Traffic == Carrying /\ [][Carries]_vars

\* ---------------------------------------------------------------- service
\* The router in service: "udp" destination 1 was added, start_mavlink has
\* returned "started", the forwarding task has read one HEARTBEAT and sent
\* it on, and the listen task has passed one buffer to the link. A call
\* of the API is made and the status is read, while the counters, the
\* traffic, the snapshot and the sockets are followed.
InService ==
    /\ serial_port = "/dev/ttyACM0"
    /\ baud_rate = DefaultBaud
    /\ connection = Link
    /\ running = TRUE
    /\ task = Min(Routes)
    /\ heartbeat_received = TRUE
    /\ retry_count = 0
    /\ last_heartbeat = "fresh"
    /\ destinations = <<1>>
    /\ dest = [d \in DestIds |->
                 IF d = 1 THEN [Connect(NewDest(1, "udp"), TRUE)
                                  EXCEPT !.listen_task = Min(Listens)]
                 ELSE NoDest]
    /\ proc = [p \in Procs |->
                 IF p = Min(Listens)
                 THEN [NewListen(1) EXCEPT !.st = "sleep"]
                 ELSE IF p = Min(Routes)
                 THEN [NewRoute EXCEPT !.st = "sleep", !.pc = "backoff"]
                 ELSE NoProc]
    /\ ready = <<>>
    /\ waitq = <<>>
    /\ cur = None
    /\ requests = MaxRequests - MaxServings
    /\ turns = 0
    /\ stats = [messages_received |-> 1, messages_forwarded |-> 1, errors |-> 0]
    /\ read = <<1>>
    /\ written = << <<1, 1>> >>
    /\ sent = [d \in DestIds |-> IF d = 1 THEN <<1>> ELSE <<>>]
    /\ received = [d \in DestIds |-> IF d = 1 THEN << <<1, 1>> >> ELSE <<>>]
    /\ telemetry = [NoTelemetry EXCEPT !.armed = TRUE, !.mode = 1]
    /\ unclosed = [d \in DestIds |-> 0]
    /\ status = NoStatus

\* POST /telemetry/start with the port and the baud rate of the request
ConfiguredStartArrives ==
    \E c \in Calls, port \in Ports, baud \in Bauds :
        proc[c].st = "idle" /\ Request(c, "start_mavlink", None, "", port, baud)

\* A run with its traffic, its snapshot and its sockets
Served(p) ==
    /\ Runnable(p)
    /\ \E T \in RunOn(Picked(Detailed, p), p) :
          /\ WithinBounds(T)
          /\ T.stats.errors <= MaxFaults
          /\ Becomes(T)
          /\ Logged(T)
    /\ UNCHANGED <<requests, turns, status>>

CallServed == \E c \in Calls : proc[c].st # "idle" /\ Served(c)

RouteMessagesServed == \E r \in Routes : proc[r].st # "idle" /\ Served(r)

ListenServed == \E l \in Listens : proc[l].st # "idle" /\ Served(l)

\* GET /telemetry/status, or the status broadcast of the websocket:
\* get_status runs between two runs of the event loop
GetStatusRuns ==
    /\ cur = None
    /\ status = NoStatus
    /\ status' = <<GetStatus(State)>>
    /\ cur' = Watcher
    /\ UNCHANGED <<router, dest, proc, ready, waitq, requests, turns, traffic>>

\* The reader has its object
StatusReturned ==
    /\ cur = Watcher
    /\ status' = NoStatus
    /\ cur' = None
    /\ UNCHANGED <<router, dest, proc, ready, waitq, requests, turns, traffic>>

Serves ==
    \/ ConfiguredStartArrives
    \/ StopArrives
    \/ AddDestinationArrives
    \/ RemoveDestinationArrives
    \/ HeartbeatTimeout
    \/ CallServed
    \/ Returned
    \/ RouteMessagesServed
    \/ ListenServed
    \/ GetStatusRuns
    \/ StatusReturned

Serving == InService /\ [][Serves]_vars

\* -------------------------------------------------------------- reception
\* The router in flight as it is in service, no call being made: the link
\* gives one more message, of any type and well formed or not, and the
\* counters, the traffic and the snapshot are followed.
Receiving ==
    /\ serial_port = "/dev/ttyACM0"
    /\ baud_rate = DefaultBaud
    /\ connection = Link
    /\ running = TRUE
    /\ task = Min(Routes)
    /\ heartbeat_received = TRUE
    /\ retry_count = 0
    /\ last_heartbeat = "fresh"
    /\ destinations = <<1>>
    /\ dest = [d \in DestIds |->
                 IF d = 1 THEN [Connect(NewDest(1, "udp"), TRUE)
                                  EXCEPT !.listen_task = Min(Listens)]
                 ELSE NoDest]
    /\ proc = [p \in Procs |->
                 IF p = Min(Listens)
                 THEN [NewListen(1) EXCEPT !.st = "sleep"]
                 ELSE IF p = Min(Routes)
                 THEN [NewRoute EXCEPT !.st = "sleep", !.pc = "backoff",
                                       !.msg_type = "HEARTBEAT",
                                       !.assigned = Len(Fields("HEARTBEAT"))]
                 ELSE NoProc]
    /\ ready = <<>>
    /\ waitq = <<>>
    /\ cur = None
    /\ requests = MaxRequests
    /\ turns = 0
    /\ stats = [messages_received |-> 1, messages_forwarded |-> 1, errors |-> 0]
    /\ read = <<1>>
    /\ written = << <<1, 1>> >>
    /\ sent = [d \in DestIds |-> IF d = 1 THEN <<1>> ELSE <<>>]
    /\ received = [d \in DestIds |-> IF d = 1 THEN << <<1, 1>> >> ELSE <<>>]
    /\ telemetry = [NoTelemetry EXCEPT !.armed = TRUE, !.mode = 1]
    /\ unclosed = [d \in DestIds |-> 0]
    /\ status = NoStatus

\* A run with its traffic, its snapshot and the type of its messages
Received(p) ==
    /\ Runnable(p)
    /\ \E T \in RunOn(Picked(Typed, p), p) :
          /\ WithinBounds(T)
          /\ T.stats.errors <= MaxFaults
          /\ Becomes(T)
          /\ Logged(T)
    /\ UNCHANGED <<requests, turns, status>>

RouteMessagesReceives == \E r \in Routes : proc[r].st # "idle" /\ Received(r)

ListenReceives == \E l \in Listens : proc[l].st # "idle" /\ Received(l)

Receives == HeartbeatTimeout \/ RouteMessagesReceives \/ ListenReceives

Reception == Receiving /\ [][Receives]_vars

\* --------------------------------------------------------------- stopping
\* The router in flight with "udp" destination 1, as in Flight: one call of
\* stop is made, and a call of start_mavlink may be made while it is in
\* progress. The link can fail (recv_match raising) but does not go silent.
BeforeStop ==
    /\ serial_port = "/dev/ttyACM0"
    /\ baud_rate = DefaultBaud
    /\ connection = Link
    /\ running = TRUE
    /\ task = Min(Routes)
    /\ heartbeat_received = TRUE
    /\ retry_count = 0
    /\ last_heartbeat = "fresh"
    /\ destinations = <<1>>
    /\ dest = [d \in DestIds |->
                 IF d = 1 THEN [Connect(NewDest(1, "udp"), TRUE)
                                  EXCEPT !.listen_task = Min(Listens)]
                 ELSE NoDest]
    /\ proc = [p \in Procs |->
                 IF p = Min(Listens) THEN NewListen(1)
                 ELSE IF p = Min(Routes) THEN NewRoute ELSE NoProc]
    /\ ready = <<Min(Listens), Min(Routes)>>
    /\ waitq = <<>>
    /\ cur = None
    /\ requests = MaxRequests - MaxHalts
    /\ turns = 0
    /\ Silent

\* POST /telemetry/stop, once
StopOnceArrives == requests = MaxRequests - MaxHalts /\ StopArrives

\* POST /telemetry/start while the call of stop is in progress
OverlappingStartArrives ==
    /\ requests > MaxRequests - MaxHalts
    /\ \E b \in Calls : proc[b].op = "stop"
    /\ StartMavlinkArrives

\* A run of a coroutine, counted: a run that leaves everything as it was is
\* a step all the same
Turned(p) == Ran(p) /\ turns' = 1 - turns /\ UNCHANGED traffic

CallTurns == \E c \in Calls : proc[c].st # "idle" /\ Turned(c)

ListenTurns == \E l \in Listens : proc[l].st # "idle" /\ Turned(l)

\* A run of p that, where p is in a wait for a HEARTBEAT, ends the wait: the
\* clock passes the wait's timeout
Progress(p) ==
    /\ proc[p].st # "idle"
    /\ Turned(p)
    /\ proc[p].pc \in {"start_wait", "rc_wait"}
          => proc'[p].pc \notin {"start_wait", "rc_wait"}

Stops ==
    \/ StopOnceArrives
    \/ OverlappingStartArrives
    \/ Returned
    \/ CallTurns
    \/ RouteMessagesTurns
    \/ ListenTurns

\* The event loop runs every runnable coroutine, every sleep ends, every
\* wait for a HEARTBEAT ends, and every result is handed over.
Stopping ==
    /\ BeforeStop
    /\ [][Stops]_vars
    /\ \A p \in Procs : WF_vars(Progress(p))
    /\ WF_vars(Returned)

TypeOK ==
    /\ serial_port \in Ports
    /\ baud_rate \in Bauds
    /\ connection \in {None, Link}
    /\ running \in BOOLEAN
    /\ task \in Routes \cup {None}
    /\ heartbeat_received \in BOOLEAN
    /\ retry_count \in 0..max_retries
    /\ last_heartbeat \in {"none", "fresh", "stale"}
    /\ Range(destinations) \subseteq DestIds
    /\ cur \in Calls \cup {None, Watcher}
    /\ requests \in 0..MaxRequests
    /\ turns \in 0..1
    /\ stats \in [{"messages_received", "messages_forwarded", "errors"} -> Nat]
    /\ DOMAIN sent = DestIds
    /\ DOMAIN received = DestIds
    /\ DOMAIN telemetry = DOMAIN NoTelemetry
    /\ unclosed \in [DestIds -> 0..MaxUnclosed]
    /\ (status = NoStatus) = (cur # Watcher)
    /\ \A p \in Procs : (proc[p].st = "ready") = (p \in Range(ready))
    /\ \A p \in Procs : (proc[p].st = "wait") = (p \in Range(waitq))
    /\ \A p \in Procs : (proc[p].st = "run") = (p = cur)
    /\ \A p \in Procs : proc[p].after \subseteq Range(ready)

\* ----------------------------------------------------------------- claims
AtReturn(c, op, result) ==
    cur = c /\ proc[c].op = op /\ proc[c].pc = "return" /\ proc[c].result = result

\* The live reverse-listen tasks of destination d, and the live forwarding
\* tasks
LiveListens(d) == {l \in Listens : proc[l].st # "idle" /\ proc[l].dest = d}

LiveRoutes == {r \in Routes : proc[r].st # "idle"}

\* A forwarding task is inside a reconnect cycle
Reconnecting ==
    \E r \in Routes : proc[r].pc \in {"rc_lt_done", "rc_open", "rc_wait"}

\* No call is in progress and no reconnect cycle is
Quiet == (\A c \in Calls : proc[c].st = "idle") /\ ~Reconnecting

\* C1: the upstream link handle is present if and only if running is true;
\* stated here for the states in which no call and no reconnect cycle is in
\* progress, which the claim includes.
LinkIffRunning == Quiet => ((connection # None) <=> running)

\* C2: a start that gets no HEARTBEAT during its wait returns an error, after
\* a terminal halt of the forwarding loop too. A HEARTBEAT seen in the wait is
\* the last thing start reads from the link, so a start that returns
\* "started" has the time of the last liveness signal fresh; stated for a
\* start that overlaps no other call and no earlier forwarding task.
StartNeedsHeartbeat ==
    \A c \in Calls :
        (/\ AtReturn(c, "start_mavlink", "started")
         /\ LiveRoutes = {task}
         /\ \A b \in Calls \ {c} : proc[b].st = "idle")
            => last_heartbeat = "fresh"

\* C3: while the router runs and more than heartbeat_timeout has passed
\* since the last liveness signal, the forwarding loop eventually starts a
\* reconnect cycle or halts (or a liveness signal arrives).
SilenceDetected ==
    (running /\ last_heartbeat = "stale")
        ~> (~running \/ Reconnecting \/ last_heartbeat # "stale")

\* C4: after liveness loss, once max_retries reconnect attempts have been
\* made and the last one has failed, running becomes false.
ExhaustedRetriesHalt ==
    (/\ running
     /\ last_heartbeat = "stale"
     /\ retry_count = max_retries
     /\ connection = None
     /\ \E r \in Routes : proc[r].pc \in {"retry_delay", "except_pause"})
        ~> ~running

\* C5: when a reconnect cycle returns success and draining resumes,
\* retry_count is 0. A forwarding task that goes from its reconnect cycle to
\* the pause that ends a drain pass has had the cycle succeed.
ReconnectResetsRetryCount ==
    [][\A r \in Routes :
          (proc[r].pc \in {"rc_open", "rc_wait"} /\ proc'[r].pc = "backoff")
              => retry_count' = 0]_vars

\* C6: a drain step that fails with the retries used up is terminal: the
\* forwarding loop does not pause and go on.
ExhaustedFailureIsTerminal == \A r \in Routes : proc[r].pc # "except_pause"

NamesDistinct ==
    \A i, j \in 1..Len(destinations) :
        i # j => dest[destinations[i]].name # dest[destinations[j]].name

AddOfTakenNameFails ==
    \A c \in Calls :
        (proc[c].pc = "add" /\ NameTaken(State, proc[c].name) /\ cur' = c)
            => (proc'[c].result = "error" /\ destinations' = destinations)

\* C7: the names of the destinations in the set are pairwise distinct in
\* every state, and an add_destination whose name is in the set returns an
\* error and leaves the set as it is.
NamesStayDistinct == []NamesDistinct /\ [][AddOfTakenNameFails]_vars

\* C7, its case: add_destination has returned an error for a name in the set
AddOfTakenNameFailed ==
    \E c \in Calls : AtReturn(c, "add", "error") /\ NameTaken(State, proc[c].name)

\* C8: while the router runs, every destination in the set has a live
\* reverse-listen task, after a failed reconnect cycle too; stated for the
\* states in which no call and no reconnect cycle is in progress.
ListenersWhileRunning ==
    (running /\ Quiet) => \A d \in Range(destinations) : LiveListens(d) # {}

\* C9: when stop returns "stopped", running is false, no forwarding task is
\* left, the link handle is absent, every destination in the set is
\* disconnected with no socket and no live listen task, and
\* heartbeat_received is false.
StopStopsAll ==
    \A c \in Calls : AtReturn(c, "stop", "stopped") =>
        /\ ~running
        /\ LiveRoutes = {}
        /\ connection = None
        /\ ~heartbeat_received
        /\ \A d \in Range(destinations) :
              ~dest[d].connected /\ ~dest[d].socket /\ LiveListens(d) = {}

\* C10: when remove_destination returns "removed", the destination is out of
\* the set, its socket is closed and no reverse-listen task of it is left.
RemoveRemovesAll ==
    \A c \in Calls : AtReturn(c, "remove", "removed") =>
        /\ proc[c].dest \notin Range(destinations)
        /\ ~dest[proc[c].dest].socket
        /\ LiveListens(proc[c].dest) = {}

\* The tasks are left as they are by a step: none is created, cancelled,
\* resumed or ended
TasksUnchanged ==
    \A t \in Tasks :
        /\ proc'[t].st = proc[t].st
        /\ proc'[t].pc = proc[t].pc
        /\ proc'[t].cancel = proc[t].cancel

\* The router's state but for the configured port
RouterUnchanged ==
    /\ UNCHANGED <<connection, running, task, heartbeat_received, retry_count,
                   last_heartbeat, destinations, dest, waitq>>
    /\ TasksUnchanged

\* C11: a start made while running is true, or with no serial port
\* configured (the route configures the port the request names and then
\* calls start), returns an error and changes no state of the router:
\* running, the link, the tasks, retry_count, heartbeat_received, the
\* destinations and the time of the last heartbeat stay as they are.
RefusedStartChangesNothing ==
    [][\A c \in Calls :
          (/\ proc[c].pc = "start_mavlink"
           /\ proc'[c].pc # "start_mavlink"
           /\ (running \/ proc[c].port = ""))
              => (/\ proc'[c].pc = "return"
                  /\ proc'[c].result = "error"
                  /\ RouterUnchanged)]_vars

\* C11, its case: start has returned an error while the router runs
StartRefusedWhileRunning ==
    \E c \in Calls : AtReturn(c, "start_mavlink", "error") /\ running

\* C12: a stop made while running is false, and a remove_destination whose
\* name is not in the set, return an error and leave the state of the router
\* as it is, after a terminal halt of the forwarding loop too.
RefusedStopAndRemoveChangeNothing ==
    [][\A c \in Calls :
          (\/ /\ proc[c].pc = "stop"
              /\ proc'[c].pc # "stop"
              /\ ~running
           \/ /\ proc[c].pc = "remove"
              /\ proc'[c].pc # "remove"
              /\ ~NameTaken(State, proc[c].name))
              => (/\ proc'[c].pc = "return"
                  /\ proc'[c].result = "error"
                  /\ serial_port' = serial_port
                  /\ RouterUnchanged)]_vars

\* C12, its case: stop has returned an error after the forwarding loop has
\* halted (running is false and the handle of the ended task is still kept)
StopRefusedAfterHalt ==
    \E c \in Calls :
        AtReturn(c, "stop", "error") /\ task # None /\ LiveRoutes = {}

\* C13: the set of destination records changes only in a step in which
\* add_destination returns "added" or remove_destination returns "removed":
\* start, stop, the reconnect cycle, the forwarding loop, a terminal halt and
\* configure leave the list, and the name and the protocol of each of its
\* members, as they are.
OnlyAddAndRemoveChangeDestinations ==
    [][(\/ destinations' # destinations
        \/ \E d \in Range(destinations) :
              \/ dest'[d].name # dest[d].name
              \/ dest'[d].protocol # dest[d].protocol)
          => \E c \in Calls :
                /\ cur' = c
                /\ proc'[c].pc = "return"
                /\ \/ proc'[c].op = "add" /\ proc'[c].result = "added"
                   \/ proc'[c].op = "remove" /\ proc'[c].result = "removed"]_vars

\* C13, its case: stop has returned "stopped" and the destinations added
\* before it are in the set
StoppedWithDestinations ==
    \E c \in Calls : AtReturn(c, "stop", "stopped") /\ destinations # <<>>

\* C14: when add_destination returns "added", the new destination is in the
\* set; if the router runs, the destination has a live reverse-listen task
\* already, and if the router does not run it has no listen task.
AddLaunchesListenerIffRunning ==
    \A c \in Calls : AtReturn(c, "add", "added") =>
        \E d \in Range(destinations) :
            /\ dest[d].name = proc[c].name
            /\ running => (/\ dest[d].listen_task # None
                           /\ dest[d].listen_task \in LiveListens(d))
            /\ ~running => (dest[d].listen_task = None /\ LiveListens(d) = {})

\* C14, its case: add_destination has returned "added" while the router runs
AddedWhileRunning ==
    \E c \in Calls : AtReturn(c, "add", "added") /\ running

\* The number of buffers the sockets of the destinations in D have taken
RECURSIVE SentThrough(_)
SentThrough(D) ==
    IF D = {} THEN 0
    ELSE LET d == CHOOSE e \in D : TRUE
         IN Len(sent[d]) + SentThrough(D \ {d})

\* C15: messages_received counts the messages the forwarding loop has read
\* from the link, and messages_forwarded counts the sends of them that
\* succeeded: over N messages the first grows by N and the second by one
\* for each message and each destination whose send of it succeeded.
CountersMatchTraffic ==
    /\ stats.messages_received = Len(read)
    /\ stats.messages_forwarded = SentThrough(DestIds)

\* C15, its case: MaxMessages messages were read; every send to destination
\* 1 succeeded and a send to destination 2 did not
SomeSendFailed ==
    /\ Len(read) = MaxMessages
    /\ Len(sent[1]) = MaxMessages
    /\ Len(sent[2]) < MaxMessages

\* s is a subsequence of t
RECURSIVE IsSubsequence(_, _)
IsSubsequence(s, t) ==
    IF s = <<>> THEN TRUE
    ELSE IF t = <<>> THEN FALSE
    ELSE IF Head(s) = Head(t) THEN IsSubsequence(Tail(s), Tail(t))
    ELSE IsSubsequence(s, Tail(t))

\* C16: the buffers sent to a destination are a subsequence of the messages
\* read from the link: in the order read, and none twice.
SentInOrderRead == \A d \in DestIds : IsSubsequence(sent[d], read)

\* C16, its case: a destination was sent the last message read and not
\* the first
FirstMessageMissed ==
    \E d \in DestIds :
        /\ Len(read) = MaxMessages
        /\ sent[d] # <<>>
        /\ Head(sent[d]) # Head(read)
        /\ sent[d][Len(sent[d])] = read[Len(read)]

\* C17: every buffer a reverse-listen task has received from its
\* destination's socket has been written to the link, once and in the order
\* received.
ReceivedIsWritten ==
    \A d \in DestIds : SelectSeq(written, LAMBDA b : b[1] = d) = received[d]

\* C18: stop releases the link handle and the sockets last: in the step of
\* a stop that closes the link or the socket of a destination, no forwarding
\* task and no reverse-listen task of a destination in the set is left
\* running; stated for a router with no forwarding task other than the one
\* it holds, and for a stop during which it is not started again.
StopReleasesLast ==
    [][\A c \in Calls :
          (/\ proc[c].op = "stop"
           /\ proc[c].st = "ready"
           /\ proc'[c].st # "ready"
           /\ LiveRoutes \subseteq {task}
           /\ ~running'
           /\ \/ connection # None /\ connection' = None
              \/ \E d \in Range(destinations) : dest[d].socket /\ ~dest'[d].socket)
              => \A t \in Tasks :
                    (t \in Routes \/ proc'[t].dest \in Range(destinations'))
                        => proc'[t].st = "idle"]_vars

\* C20: every destination in the set owns a socket handle if and only if
\* it is connected.
SocketIffConnected ==
    \A d \in Range(destinations) : dest[d].socket <=> dest[d].connected

\* C19: calls of remove_destination and stop that run while a traversal of
\* the list is suspended at an await make it skip no destination: when the
\* traversal of the reconnect cycle ends, every destination in the set has
\* had its listen task cancelled and cleared, and when the traversal of stop
\* ends, every destination in the set is closed with no listen task.
TraversalsSkipNone ==
    [][/\ \A r \in Routes :
            (proc[r].pc = "rc_lt_done" /\ proc'[r].pc = "rc_open")
                => \A d \in Range(destinations') : dest'[d].listen_task = None
       /\ \A c \in Calls :
            (proc[c].pc = "stop_lt_done" /\ proc'[c].pc = "return")
                => \A d \in Range(destinations') :
                      dest'[d].listen_task = None /\ ~dest'[d].socket]_vars

\* C25: a reconnect cycle that fails leaves running and the listen tasks as
\* they were before it began. A run of the forwarding task out of the cycle
\* that leaves the link absent is a cycle that failed; with retry_count at 1
\* it is the first cycle since the listen tasks were launched, and before
\* it every destination in the set had a live listen task.
FailedReconnectKeepsListenTasks ==
    [][\A r \in Routes :
          (/\ proc[r].pc \in {"rc_open", "rc_wait"}
           /\ retry_count = 1
           /\ proc'[r].st # "idle"
           /\ connection' = None)
              => /\ running' = running
                 /\ \A d \in Range(destinations') :
                       \E l \in Listens :
                          proc'[l].st # "idle" /\ proc'[l].dest = d]_vars

\* C26: a reconnect cycle that succeeds returns with the link handle
\* present, heartbeat_received true and last_heartbeat refreshed, a connect
\* attempt made for every destination that was disconnected (each owns a
\* socket, and each "udp" one is connected), and a live listen task for
\* every destination in the set. A forwarding task that goes from its
\* reconnect cycle to the pause that ends a drain pass has had the cycle
\* succeed.
SuccessfulReconnectRestores ==
    [][\A r \in Routes :
          (proc[r].pc \in {"rc_open", "rc_wait"} /\ proc'[r].pc = "backoff")
              => /\ connection' # None
                 /\ heartbeat_received'
                 /\ last_heartbeat' = "fresh"
                 /\ \A d \in Range(destinations') :
                       /\ dest'[d].socket
                       /\ dest'[d].protocol = "udp" => dest'[d].connected
                       /\ dest'[d].listen_task \in Listens
                       /\ proc'[dest'[d].listen_task].st # "idle"
                       /\ proc'[dest'[d].listen_task].dest = d]_vars

\* A cycle has succeeded after a failed drain step, with a "tcp" destination
\* whose connect attempt failed
ReconnectedAfterFailure ==
    /\ \E r \in Routes : proc[r].pc = "backoff" /\ proc[r].st = "sleep"
    /\ retry_count > 0
    /\ connection # None
    /\ \E d \in Range(destinations) : dest[d].socket /\ ~dest[d].connected
    /\ \A d \in Range(destinations) : LiveListens(d) # {}

\* C24: when start returns "started", running is true, retry_count is 0,
\* the link handle is present, heartbeat_received is true, every destination
\* in the set has had its connect attempt (it owns a socket, and a "udp" one
\* is connected), and there is exactly one live listen task for each
\* destination in the set. Stated for a start that no other call overlaps
\* and that leaves its own forwarding task as the only one.
StartedStartsAll ==
    \A c \in Calls :
        (/\ AtReturn(c, "start_mavlink", "started")
         /\ LiveRoutes = {task}
         /\ \A c2 \in Calls \ {c} : proc[c2].st = "idle")
            => /\ running
               /\ retry_count = 0
               /\ connection # None
               /\ heartbeat_received
               /\ \A d \in Range(destinations) :
                     /\ dest[d].socket
                     /\ dest[d].protocol = "udp" => dest[d].connected
                     /\ Cardinality(LiveListens(d)) = 1

\* C28: send has no outcome but True and False. On a transport failure it
\* returns False and sets connected to false; on a destination that is not
\* connected or has no socket it returns False and changes nothing; a send
\* that succeeds changes nothing either.
SendContainsFailure ==
    \A d \in DestIds, ok \in BOOLEAN :
        LET e == dest[d] IN
        /\ SendOk(e, ok) \in BOOLEAN
        /\ (e.connected /\ e.socket /\ ~ok)
              => (~SendOk(e, ok) /\ Send(e, ok) = [e EXCEPT !.connected = FALSE])
        /\ (e.connected /\ e.socket /\ ok) => (SendOk(e, ok) /\ Send(e, ok) = e)
        /\ (~e.connected \/ ~e.socket) => (~SendOk(e, ok) /\ Send(e, ok) = e)

\* C28, its case: two messages were read and neither went out to a
\* destination that is now disconnected: a send to it failed, and a later
\* send found it disconnected or failed again
SendFailedTwice ==
    \E d \in Range(destinations) :
        /\ Len(read) = 2
        /\ sent[d] = <<>>
        /\ dest[d].socket /\ ~dest[d].connected
        /\ stats.errors >= 2

\* C29: recv has no outcome but a buffer and None. When the transport would
\* block it returns None and changes nothing; on any other transport error
\* it returns None and sets connected to false; when the transport gives a
\* buffer it returns it and changes nothing; on a destination that is not
\* connected or has no socket it returns None and changes nothing.
RecvContainsFailure ==
    \A d \in DestIds, o \in RecvOutcomes :
        LET e == dest[d]
            live == e.connected /\ e.socket
        IN /\ RecvData(e, o) \in BOOLEAN
           /\ (live /\ o = "none") => (~RecvData(e, o) /\ Recv(e, o) = e)
           /\ (live /\ o = "error")
                 => (~RecvData(e, o) /\ Recv(e, o) = [e EXCEPT !.connected = FALSE])
           /\ (live /\ o = "data") => (RecvData(e, o) /\ Recv(e, o) = e)
           /\ ~live => (~RecvData(e, o) /\ Recv(e, o) = e)

\* C29, its case: a "udp" destination gave a buffer and then an error: it
\* keeps its socket and is disconnected
RecvFailedAfterData ==
    \E d \in Range(destinations) :
        /\ dest[d].protocol = "udp"
        /\ received[d] # <<>>
        /\ dest[d].socket /\ ~dest[d].connected

\* C27: in a run of the forwarding task that starts at the top of its loop
\* and handles one message, the destinations the message did not go out to
\* are the ones whose send failed. errors grows by one for each of them, each has had its inline
\* connect attempt (it owns a socket, and a "udp" one is connected again),
\* the message has gone out to every other destination in the set, and the
\* task is neither ended nor in a reconnect cycle: it sleeps at the end of
\* the drain pass, unless recv_match raised after the message, which errors
\* counts once more.
FailedSendIsContained ==
    [][\A r \in Routes :
          LET failed == {d \in Range(destinations) : sent'[d] = sent[d]} IN
          (/\ proc[r].pc \in {"route", "backoff", "retry_delay", "except_pause"}
           /\ proc'[r] # proc[r]
           /\ Len(read') = Len(read) + 1
           /\ failed # {})
              => /\ \A d \in Range(destinations) \ failed :
                       sent'[d] = Append(sent[d], read'[Len(read')])
                 /\ \A d \in failed :
                       /\ dest'[d].socket
                       /\ dest'[d].protocol = "udp" => dest'[d].connected
                 /\ running' /\ proc'[r].st = "sleep"
                 /\ destinations' = destinations
                 /\ \/ /\ proc'[r].pc = "backoff"
                       /\ stats'.errors = stats.errors + Cardinality(failed)
                       /\ retry_count' = retry_count
                       /\ connection' = connection
                    \/ /\ proc'[r].pc \in {"except_delay", "except_pause"}
                       /\ stats'.errors = stats.errors + Cardinality(failed) + 1]_vars

\* C27, its case: the one message read went out to destination 2 and not to
\* destination 1, whose send failed: one error is counted, destination 1 is
\* connected again and the forwarding task sleeps at the end of its pass
OneSendFailedOtherSent ==
    /\ Len(read) = 1
    /\ sent[1] = <<>>
    /\ sent[2] = read
    /\ stats.errors = 1
    /\ dest[1].connected
    /\ \E r \in Routes : proc[r].st = "sleep" /\ proc[r].pc = "backoff"

\* C21: get_status changes no state of the router, of the destinations or
\* of the tasks, and the object it returns agrees field by field with the
\* state: running, connected (the link handle is present),
\* heartbeat_received, the serial configuration, one entry for each
\* destination in the order of the set with its connected flag, the three
\* counters and the time of the last heartbeat, the snapshot, retry_count
\* and max_retries.
StatusIsFaithful ==
    [][(status = NoStatus /\ status' # NoStatus) =>
          LET s == status'[1] IN
          /\ UNCHANGED <<router, dest, traffic, proc, ready, waitq>>
          /\ s.running = running
          /\ s.connected = (connection # None)
          /\ s.heartbeat_received = heartbeat_received
          /\ s.serial_port = serial_port
          /\ s.baud_rate = baud_rate
          /\ Len(s.destinations) = Len(destinations)
          /\ \A i \in 1..Len(destinations) :
                /\ s.destinations[i].name = dest[destinations[i]].name
                /\ s.destinations[i].protocol = dest[destinations[i]].protocol
                /\ s.destinations[i].connected = dest[destinations[i]].connected
          /\ s.stats.messages_received = stats.messages_received
          /\ s.stats.messages_forwarded = stats.messages_forwarded
          /\ s.stats.errors = stats.errors
          /\ s.stats.last_heartbeat = last_heartbeat
          /\ s.telemetry = telemetry
          /\ s.retry_count = retry_count
          /\ s.max_retries = max_retries]_vars

\* C21, its case: the status is read during a reconnect cycle, when the
\* router runs with no link, and after a second message was parsed
StatusReadWithoutLink ==
    /\ status # NoStatus
    /\ status[1].running
    /\ ~status[1].connected
    /\ Len(status[1].destinations) = 1
    /\ status[1].stats.messages_received = 2
    /\ status[1].telemetry.mode = 2
    /\ status[1].retry_count > 0

\* C22: no step lowers a counter: messages_received, messages_forwarded and
\* errors are, after every step of the forwarding loop, of the reconnect
\* cycle, of the listen tasks and of the calls start_mavlink (configure and
\* start), stop, add_destination and remove_destination, at least what they
\* were before it.
CountersNeverDecrease ==
    [][/\ stats'.messages_received >= stats.messages_received
       /\ stats'.messages_forwarded >= stats.messages_forwarded
       /\ stats'.errors >= stats.errors]_vars

\* C22, its case: start returns "started" on a router that has counted two
\* messages and an error
StartedWithCounters ==
    \E c \in Calls :
        /\ AtReturn(c, "start_mavlink", "started")
        /\ stats.messages_received = 2
        /\ stats.messages_forwarded > 0
        /\ stats.errors = 1

\* C23: configure, in whatever state it is called, changes the stored
\* serial_port and baud_rate and nothing else: it opens no link and leaves
\* running, the link, the tasks, the destinations, the counters and the
\* retry state as they are; after the call the stored values are those of
\* the call, whatever was stored before.
ConfigureStoresOnly ==
    [][\A c \in Calls :
          (proc[c].pc = "start_mavlink" /\ proc'[c].pc # "start_mavlink") =>
              LET S == Picked(Detailed, c) IN
              /\ serial_port' = proc[c].port
              /\ baud_rate' = proc[c].baud
              /\ \A T \in Configure(S, c) :
                    T = [S EXCEPT !.serial_port = proc[c].port,
                                  !.baud_rate = proc[c].baud,
                                  !.proc[c].pc = T.proc[c].pc]]_vars

\* C23, its case: a call made while the router runs has stored another
\* port and another baud rate than the ones the router was started with
ReconfiguredWhileRunning ==
    \E c \in Calls :
        /\ AtReturn(c, "start_mavlink", "error")
        /\ running
        /\ connection # None
        /\ serial_port = ""
        /\ baud_rate # DefaultBaud
        /\ stats.messages_received = 2

\* C30: connect on a destination that holds a socket leaves the destination
\* with exactly one open socket, the one it held being released: the socket
\* a destination owns and the sockets its connect calls have left open are
\* never more than one, however many inline reconnects the forwarding loop
\* makes.
AtMostOneOpenSocket ==
    \A d \in DestIds : (IF dest[d].socket THEN 1 ELSE 0) + unclosed[d] <= 1

\* The forwarding task r has handled one message in the step
HandlesOne(r) ==
    /\ proc[r].st # "idle"
    /\ proc'[r].st # "idle"
    /\ Len(read') = Len(read) + 1

\* The counters of forwarded messages and of errors have grown by n together
CountedTogether(n) ==
    (stats'.messages_forwarded + stats'.errors)
        = (stats.messages_forwarded + stats.errors) + n

\* C31: a message of a type outside the known set leaves every field of the
\* snapshot as it was; it is counted in messages_received, and its buffer
\* goes out to every destination whose send succeeds, any other send being
\* counted as an error.
UnknownTypeLeavesSnapshot ==
    [][\A r \in Routes :
          (HandlesOne(r) /\ proc'[r].msg_type = "OTHER")
              => /\ telemetry' = telemetry
                 /\ stats'.messages_received = stats.messages_received + 1
                 /\ \A d \in Range(destinations) :
                       \/ sent'[d] = Append(sent[d], read'[Len(read')])
                       \/ sent'[d] = sent[d] /\ stats'.errors > stats.errors]_vars

\* A message of an unknown type has gone out, the snapshot being the one of
\* the HEARTBEAT read before it
UnknownTypeForwarded ==
    /\ \E r \in Routes : proc[r].msg_type = "OTHER"
    /\ stats.messages_received = 2
    /\ sent[1] = <<1, 2>>
    /\ telemetry = [NoTelemetry EXCEPT !.armed = TRUE, !.mode = 1]

\* C32: a message whose field extraction fails is counted once in
\* messages_received and forwarded like any other: where the pass of the
\* loop ends in its pause, every destination has had a send counted as
\* forwarded or as an error, and retry_count and the link are as they were;
\* where the pass ends in the except clause, the one error more is the one
\* of the link.
ExtractionFailureIsSwallowed ==
    [][\A r \in Routes :
          (/\ HandlesOne(r)
           /\ proc[r].pc = "backoff"
           /\ proc'[r].assigned < Len(Fields(proc'[r].msg_type)))
              => /\ stats'.messages_received = stats.messages_received + 1
                 /\ proc'[r].pc \in {"backoff", "except_delay", "except_pause"}
                 /\ proc'[r].pc = "backoff"
                       => /\ CountedTogether(Len(destinations))
                          /\ retry_count' = retry_count
                          /\ connection' = connection
                 /\ proc'[r].pc # "backoff"
                       => CountedTogether(Len(destinations) + 1)]_vars

\* A GLOBAL_POSITION_INT whose third field could not be extracted has gone
\* out, with no error counted and no reconnect attempt made
ExtractionFailedAndForwarded ==
    /\ \E r \in Routes :
          /\ proc[r].msg_type = "GLOBAL_POSITION_INT"
          /\ proc[r].assigned = 2
          /\ proc[r].pc = "backoff"
    /\ telemetry.latitude = 2
    /\ telemetry.altitude = None
    /\ sent[1] = <<1, 2>>
    /\ stats = [messages_received |-> 2, messages_forwarded |-> 2, errors |-> 0]
    /\ retry_count = 0

\* C33: each destination has at most one live reverse-listen task, and
\* every live listen task is the one its destination's listen_task refers
\* to; stated for the states in which the router runs with one forwarding
\* task and no call of start is in progress.
OneListenTaskEach ==
    (/\ running
     /\ LiveRoutes = {task}
     /\ \A c \in Calls : proc[c].op # "start_mavlink")
        => /\ \A d \in DestIds : Cardinality(LiveListens(d)) <= 1
           /\ \A l \in Listens :
                 proc[l].st # "idle" => dest[proc[l].dest].listen_task = l

\* C34: at most one forwarding task exists at any time, and it is the one
\* self.task refers to.
OneForwardingTask ==
    /\ Cardinality(LiveRoutes) <= 1
    /\ LiveRoutes \subseteq {task}

\* C36: whenever running is true, heartbeat_received is true.
RunningHasHeartbeat == running => heartbeat_received

\* C38: every destination in the set has the protocol udp or tcp: an
\* add_destination call that returns "added" has appended one connected
\* destination of its name and protocol, and one that returns an error, as
\* every call with another protocol does, leaves the set and the
\* destinations as they were.
AddedOnlyWhenConnected ==
    [][/\ \A d \in Range(destinations') : dest'[d].protocol \in {"udp", "tcp"}
       /\ \A c \in Calls :
             (proc[c].pc = "add" /\ proc'[c].pc = "return")
                 => /\ proc'[c].result \in {"added", "error"}
                    /\ proc[c].protocol \notin {"udp", "tcp"}
                          => proc'[c].result = "error"
                    /\ proc'[c].result = "error"
                          => destinations' = destinations /\ dest' = dest
                    /\ proc'[c].result = "added"
                          => /\ Len(destinations') = Len(destinations) + 1
                             /\ SubSeq(destinations', 1, Len(destinations))
                                   = destinations
                             /\ LET d == destinations'[Len(destinations')] IN
                                   /\ d \notin Range(destinations)
                                   /\ dest'[d].name = proc[c].name
                                   /\ dest'[d].protocol = proc[c].protocol
                                   /\ dest'[d].connected]_vars

\* An add_destination of a new name with the protocol tcp has returned an
\* error, its peer refusing, beside a destination that was added before
RefusedAddFailed ==
    \E c \in Calls :
        /\ AtReturn(c, "add", "error")
        /\ proc[c].protocol = "tcp"
        /\ ~NameTaken(State, proc[c].name)
        /\ Len(destinations) = 1

\* C37: over a pass of the forwarding loop that ends in its pause, with no
\* exception, messages_forwarded and errors together grow by the number of
\* destinations in the set for each message handled; a destination that is
\* disconnected when such a pass begins at the top of the loop and handles
\* one message takes no buffer, is counted as an error and has had a
\* connect attempt.
EveryDestinationCounted ==
    [][\A r \in Routes :
          (proc[r].st # "idle" /\ proc'[r].pc = "backoff")
              => /\ CountedTogether((Len(read') - Len(read)) * Len(destinations))
                 /\ \A d \in Range(destinations) :
                       (/\ proc[r].pc \in {"route", "backoff", "retry_delay",
                                            "except_pause"}
                        /\ Len(read') = Len(read) + 1
                        /\ ~dest[d].connected)
                           => /\ sent'[d] = sent[d]
                              /\ stats'.errors > stats.errors
                              /\ dest'[d].socket]_vars

\* Two messages were handled with no exception: both went out to destination
\* 1, and destination 2, disconnected in the end, took none and was counted
\* as an error for each
DisconnectedWasCounted ==
    /\ Len(read) = 2
    /\ stats = [messages_received |-> 2, messages_forwarded |-> 2, errors |-> 2]
    /\ Len(sent[1]) = 2
    /\ sent[2] = <<>>
    /\ ~dest[2].connected
    /\ retry_count = 0
    /\ \E r \in Routes : proc[r].pc = "backoff"

\* The run r makes in the step begins a reconnect cycle: it ends in the
\* sleep of the except clause before _reconnect, or inside a _reconnect that
\* the run has entered from the liveness check
EntersCycle(r) ==
    \/ proc'[r].pc = "except_delay"
    \/ /\ proc'[r].pc \in {"rc_lt_done", "rc_open"}
       /\ proc[r].pc \in {"route", "backoff", "retry_delay", "except_pause",
                          "rc_open", "rc_wait"}

\* The run r makes in the step ends a reconnect cycle with success, the
\* listen tasks being launched anew
EndsCycleWell(r) ==
    /\ proc[r].pc \in {"rc_open", "rc_wait"}
    /\ \E l \in Listens : proc[l].st = "idle" /\ proc'[l].st # "idle"

\* C35: retry_count stays between 0 and max_retries, and every reconnect
\* cycle the forwarding loop begins, from the liveness check or from the
\* except clause, raises it by one: it goes down only to 0, when a cycle
\* begun from the liveness check succeeds, so that at most max_retries
\* cycles are begun between two successes.
RetriesAreCounted ==
    [][\A r \in Routes :
          (proc[r].st # "idle" /\ turns' # turns)
              => LET base == IF EndsCycleWell(r) /\ proc[r].via = "hb"
                             THEN 0 ELSE retry_count
                 IN /\ retry_count' \in 0..max_retries
                    /\ EntersCycle(r) => base < max_retries
                    /\ retry_count' = base + (IF EntersCycle(r) THEN 1 ELSE 0)]_vars

\* The last cycle the limit allows was begun from the liveness check
LastRetryBegun ==
    /\ retry_count = max_retries
    /\ \E r \in Routes : proc[r].pc = "rc_open" /\ proc[r].via = "hb"

\* C39: every call of stop made while running is true eventually returns.
StopReturns ==
    \A c \in Calls :
        (proc[c].op = "stop" /\ proc[c].st # "idle") ~> (proc[c].st = "idle")

====
